---- MODULE Spec2Model ----
(***************************************************************************)
(* Verification model of docker-ui-tauri:                                  *)
(*   - the SSH session registry     (src-tauri/src/client_ssh.rs)          *)
(*   - the saved-profile store      (src-tauri/src/client_ssh.rs)          *)
(*   - the Docker manager state and the CPU delta cache                    *)
(*                                  (src-tauri/src/lib.rs, docker.rs)      *)
(*                                                                         *)
(* Spec         : two tasks calling the session registry concurrently.     *)
(* SpecSeq      : one caller, every input of the session registry.         *)
(* SpecProfiles : one caller on the saved-profile store.                   *)
(* SpecMetrics  : one docker_* command at a time, two containers.          *)
(* SpecDocker   : two docker_* commands running concurrently.              *)
(***************************************************************************)
EXTENDS Integers, Sequences, FiniteSets, TLC

VARIABLES
    connections,        \* SshClient.connections : HashMap<String, SshConnection>
    connection_counter, \* SshClient.connection_counter : AtomicU64
    saved_connections,  \* SshClient.saved_connections : Vec<SavedSshConnection>
    config_file,        \* the content of the file at config_path
    saved_lock,         \* holder of the saved_connections Mutex
    clock,              \* SystemTime::now() in seconds since the epoch
    conn_lock,          \* holder of the connections Mutex
    pc,                 \* per task: position inside the method it runs
    local,              \* per task: the locals of the method it runs
    last,               \* what the call that returned most recently handed back;
                        \* forgotten when the next call starts
    opened,             \* per connection id: sessions create_ssh_session built for it
    releases,           \* per connection id: how often its transport was dropped
    manager_state,      \* DockerManagerState : Mutex<Option<DockerManager>>
    held,               \* per task: the DockerManager its command took out
    sampled             \* per task: containers its get_docker_system_usage has done

vars == <<connections, connection_counter, saved_connections, config_file, saved_lock,
          clock, conn_lock, pc, local, last, opened, releases,
          manager_state, held, sampled>>

-----------------------------------------------------------------------------
(* Bounds *)

MaxConnects == 2

\* Two callers run SshClient methods at the same time.
Tasks == {1, 2}
NoTask == 0

\* Instants the system clock is observed at (seconds): minute 0 and minute 11.
Instants == {0, 660}

\* Thresholds passed to cleanup_inactive_connections (minutes).
IdleMinutes == {10, 11}

\* (host, port, username) triples the callers use.
Targets == {[host |-> "h1", port |-> 22, username |-> "root"],
            [host |-> "h2", port |-> 22, username |-> "root"]}

\* Passwords a caller may send with a request.
Passwords == {"pw1", "pw2"}

\* SshConnectionRequest { host, port, username, password }
RequestOf(target, password) ==
    [host |-> target.host, port |-> target.port,
     username |-> target.username, password |-> password]

Requests == {RequestOf(target, password) : target \in Targets, password \in Passwords}

\* Option<String> display names: None, Some("prod").
Names == {<<>>, <<"prod">>}

-----------------------------------------------------------------------------
(* Values *)

\* u64 arithmetic at a reduced width: all timestamps stay far below it.
WordModulus == 2^30

\* format!("ssh_conn_{}", id)
FormatConnectionId(n) == <<"ssh_conn_", n>>

AllConnIds == {FormatConnectionId(n) : n \in 0..(MaxConnects - 1)}

NoTarget == [host |-> "", port |-> 0, username |-> "", password |-> ""]
NoLocal == [connection_id |-> <<>>, current_time |-> 0, request |-> NoTarget]
NoResult == [op |-> "none", status |-> "none", val |-> <<>>]

\* What a finished call handed back: the method, Ok/Err, and the payload.
Res(op, status, val) == [op |-> op, status |-> status, val |-> val]

\* Variant: the saved record carries the request's password as well.
SavedOfWithPassword(target, name) ==
    [host |-> target.host, port |-> target.port,
     username |-> target.username, name |-> name, password |-> target.password]

\* SavedSshConnection { host, port, username, name }
SavedOf(target, name) ==
    [host |-> target.host, port |-> target.port,
     username |-> target.username, name |-> name]

KeyOf(r) == <<r.host, r.port, r.username>>

\* Variant: the entry is inserted with session: None.
NewConnectionSessionNone(id, target, now) ==
    [host |-> target.host, port |-> target.port, username |-> target.username,
     connection_id |-> id, connected_at |-> now, last_activity |-> now,
     session |-> FALSE, tcp_stream |-> TRUE]

\* Variant: last_activity starts at the epoch instead of the call's `now`.
NewConnectionActivityAtEpoch(id, target, now) ==
    [host |-> target.host, port |-> target.port, username |-> target.username,
     connection_id |-> id, connected_at |-> now, last_activity |-> 0,
     session |-> TRUE, tcp_stream |-> TRUE]

\* SshConnection { info, session: Some, tcp_stream: Some }
NewConnection(id, target, now) ==
    [host |-> target.host, port |-> target.port, username |-> target.username,
     connection_id |-> id, connected_at |-> now, last_activity |-> now,
     session |-> TRUE, tcp_stream |-> TRUE]

\* HashMap::insert / HashMap::remove
MapInsert(m, k, v) == [x \in (DOMAIN m) \cup {k} |-> IF x = k THEN v ELSE m[x]]
MapRemove(m, ks) == [x \in (DOMAIN m) \ ks |-> m[x]]

EmptyMap == [x \in {} |-> 0]

\* Option<T>: None is <<>>, Some(v) is <<v>>.
UnwrapOr(o, d) == IF o = <<>> THEN d ELSE o[1]

\* The file before the first write, a file holding a JSON array, and a file a
\* failed write left truncated.
NoFile == [state |-> "absent", array |-> <<>>]
JsonFile(array) == [state |-> "json", array |-> array]
TruncatedFile == [state |-> "truncated", array |-> <<>>]

\* Option<DockerManager>::None
NoManager == <<>>

-----------------------------------------------------------------------------
(* The connections Mutex *)

LockFree(t) == conn_lock = NoTask

(* The saved_connections Mutex *)

SavedLockFree(t) == saved_lock = NoTask

\* Variant: the guard is not dropped before save_connections is awaited.
MutationHoldsUntilSaved(t) == t

\* drop(saved_connections): the guard is gone before save_connections().await.
MutationHolds(t) == NoTask

-----------------------------------------------------------------------------
Init ==
    /\ connections = EmptyMap
    /\ connection_counter = 0
    /\ saved_connections = <<>>
    /\ config_file = NoFile
    /\ saved_lock = NoTask
    /\ clock = 0
    /\ conn_lock = NoTask
    /\ pc = [t \in Tasks |-> "idle"]
    /\ local = [t \in Tasks |-> NoLocal]
    /\ last = NoResult
    /\ opened = [i \in AllConnIds |-> 0]
    /\ releases = [i \in AllConnIds |-> 0]
    /\ manager_state = NoManager
    /\ held = [t \in Tasks |-> NoManager]
    /\ sampled = [t \in Tasks |-> {}]

sshVars == <<connections, connection_counter, clock, conn_lock, opened, releases>>
profileVars == <<saved_connections, config_file, saved_lock>>
dockerVars == <<manager_state, held, sampled>>

\* A task leaves a method: its locals are gone, the caller holds the result.
Finish(t, r) ==
    /\ pc' = [pc EXCEPT ![t] = "idle"]
    /\ local' = [local EXCEPT ![t] = NoLocal]
    /\ last' = r

Goto(t, label) ==
    /\ pc' = [pc EXCEPT ![t] = label]
    /\ UNCHANGED <<local, last>>

\* SystemTime::now() is not monotonic: the wall clock may be stepped either way.
ClockStep(instants) ==
    /\ \E now \in instants : now # clock /\ clock' = now
    /\ UNCHANGED <<dockerVars, connections, connection_counter, conn_lock, opened, releases,
                   profileVars, pc, local, last>>

-----------------------------------------------------------------------------
(* connect *)

\* connection_counter.fetch_add(1, SeqCst) returns the value before the add ...
GenerateConnectionId(counter) == FormatConnectionId(counter)

\* Variant: a plain load, the counter is never advanced.
FetchAddLoadOnly(counter) == counter

\* ... and leaves the counter one higher.
FetchAdd(counter) == counter + 1

\* create_ssh_session: TCP connect, handshake, userauth_password, authenticated().
SessionOutcomes ==
    {"ok", "tcp_failed", "handshake_failed", "auth_failed", "not_authenticated"}

ConnectBegin(t, request) ==
    /\ pc[t] = "idle"
    /\ connection_counter < MaxConnects
    /\ connection_counter' = FetchAdd(connection_counter)
    /\ local' = [local EXCEPT ![t] =
                    [connection_id |-> GenerateConnectionId(connection_counter),
                     current_time |-> clock, request |-> request]]
    /\ pc' = [pc EXCEPT ![t] = "connect_session"]
    /\ last' = NoResult
    /\ UNCHANGED <<dockerVars, connections, clock, conn_lock, opened, releases, profileVars>>

\* Variant: the session.authenticated() check is missing.
ConnectFailureLabelNoFlagCheck(outcome) ==
    IF outcome \in {"ok", "not_authenticated"} THEN "connect_save" ELSE "idle"

\* The `?` after create_ssh_session: any failure returns before anything is stored.
ConnectFailureLabel(outcome) == IF outcome = "ok" THEN "connect_save" ELSE "idle"

ConnectSession(t, outcomes) ==
    /\ pc[t] = "connect_session"
    /\ \E outcome \in outcomes :
          IF ConnectFailureLabel(outcome) = "idle"
          THEN /\ Finish(t, Res("connect", "err", outcome))
               /\ UNCHANGED opened
          ELSE /\ Goto(t, ConnectFailureLabel(outcome))
               /\ opened' = [opened EXCEPT ![local[t].connection_id] = @ + 1]
    /\ UNCHANGED <<dockerVars, connections, connection_counter, clock, conn_lock, releases,
                   profileVars>>

\* Variant: an upsert, which leaves the list alone when the key is already there.
PushSavedUnlessPresent(saved, rec) ==
    IF \E i \in 1..Len(saved) : KeyOf(saved[i]) = KeyOf(rec) THEN saved ELSE Append(saved, rec)

\* add_saved_connection: push under the saved_connections lock, then drop it.
PushSaved(saved, rec) == Append(saved, rec)

ConnectSave(t) ==
    /\ pc[t] = "connect_save"
    /\ SavedLockFree(t)
    /\ saved_lock' = MutationHolds(t)
    /\ saved_connections' = PushSaved(saved_connections, SavedOf(local[t].request, <<>>))
    /\ Goto(t, "connect_write")
    /\ UNCHANGED <<dockerVars, sshVars, config_file>>

\* serde_json values: a string, a number, null.
JsonString(str) == [string |-> str]
JsonNumber(n) == [number |-> n]
JsonNull == [null |-> TRUE]

\* Variant: the name field is skipped by the serializer and written as null.
ToJsonSkippingName(rec) ==
    [host |-> JsonString(rec.host), port |-> JsonNumber(rec.port),
     username |-> JsonString(rec.username), name |-> JsonNull]

\* #[derive(Serialize)] of SavedSshConnection: Option<String> is null or a string.
ToJson(rec) ==
    [host |-> JsonString(rec.host), port |-> JsonNumber(rec.port),
     username |-> JsonString(rec.username),
     name |-> IF rec.name = <<>> THEN JsonNull ELSE JsonString(rec.name[1])]

\* #[derive(Deserialize)] of SavedSshConnection.
FromJson(obj) ==
    [host |-> obj.host.string, port |-> obj.port.number,
     username |-> obj.username.string,
     name |-> IF "null" \in DOMAIN obj.name THEN <<>> ELSE <<obj.name.string>>]

\* serde_json::to_string_pretty(&*connections): a JSON array, in list order.
Serialize(saved) == [i \in 1..Len(saved) |-> ToJson(saved[i])]

\* load_saved_connections: the parsed array, or the empty list when the file
\* is missing, unreadable or does not parse.
LoadSavedConnections(file) ==
    IF file.state = "json"
    THEN [i \in 1..Len(file.array) |-> FromJson(file.array[i])]
    ELSE <<>>

\* save_connections: serialize the list as it is now and rewrite the file.
\* A failed fs::write leaves the old content or a truncated file.
WriteKinds == {"written", "failed_kept", "failed_truncated"}

\* Variant: the rewrite serializes a copy taken before the lock was dropped, so
\* a write that reports success can leave the older content in the file.
WriteFileKeepsOld(saved, file, w) ==
    CASE w = "written" -> file
      [] w = "failed_kept" -> file
      [] w = "failed_truncated" -> TruncatedFile

WriteFile(saved, file, w) ==
    CASE w = "written" -> JsonFile(Serialize(saved))
      [] w = "failed_kept" -> file
      [] w = "failed_truncated" -> TruncatedFile

SaveStatus(w) == IF w = "written" THEN "ok" ELSE "err"

ConnectWrite(t, writes) ==
    /\ pc[t] = "connect_write"
    /\ SavedLockFree(t)
    /\ \E w \in writes : config_file' = WriteFile(saved_connections, config_file, w)
    /\ Goto(t, "connect_insert")     \* let _ = ...: the result is discarded
    /\ UNCHANGED <<dockerVars, sshVars, saved_connections, saved_lock>>

ConnectInsert(t) ==
    /\ pc[t] = "connect_insert"
    /\ LockFree(t)
    /\ connections' = MapInsert(connections, local[t].connection_id,
                          NewConnection(local[t].connection_id, local[t].request,
                                        local[t].current_time))
    /\ Finish(t, Res("connect", "ok", local[t].connection_id))
    /\ UNCHANGED <<dockerVars, connection_counter, clock, conn_lock, opened, releases, profileVars>>

-----------------------------------------------------------------------------
(* disconnect, disconnect_all *)

\* Variant: the entry is looked up but left in the map.
DisconnectRemoveKeepsEntry(conns, id) == conns

\* Variant: the whole table goes with the entry.
DisconnectRemoveEverything(conns, id) == MapRemove(conns, DOMAIN conns)

\* connections.remove(connection_id)
DisconnectRemove(conns, id) == MapRemove(conns, {id})

Disconnect(t, id) ==
    /\ pc[t] = "idle"
    /\ LockFree(t)
    /\ IF id \in DOMAIN connections
       THEN /\ connections' = DisconnectRemove(connections, id)
            /\ conn_lock' = t
            /\ local' = [local EXCEPT ![t] = [NoLocal EXCEPT !.connection_id = id]]
            /\ pc' = [pc EXCEPT ![t] = "disconnect_release"]
            /\ last' = NoResult
       ELSE /\ Finish(t, Res("disconnect", "err", "Connection not found"))
            /\ UNCHANGED <<connections, conn_lock>>
    /\ UNCHANGED <<dockerVars, connection_counter, clock, opened, releases, profileVars>>

\* Variant: the removed values are kept alive.
DropNothing(rel, ids) == rel

\* session.take() + disconnect, tcp_stream.take(); the removed value is dropped
\* at the end of the block, and the guard with it.
DropTransport(rel, ids) == [i \in DOMAIN rel |-> IF i \in ids THEN rel[i] + 1 ELSE rel[i]]

DisconnectRelease(t) ==
    /\ pc[t] = "disconnect_release"
    /\ conn_lock = t
    /\ releases' = DropTransport(releases, {local[t].connection_id})
    /\ conn_lock' = NoTask
    /\ Finish(t, Res("disconnect", "ok", local[t].connection_id))
    /\ UNCHANGED <<dockerVars, connections, connection_counter, clock, opened, profileVars>>

\* failed: the sessions whose session.disconnect() returns an error; `let _ =`
\* throws the result away and each drained value is dropped all the same.
DisconnectAll(t, failed) ==
    /\ pc[t] = "idle"
    /\ LockFree(t)
    /\ failed \subseteq DOMAIN connections
    /\ connections' = EmptyMap                       \* connections.drain()
    /\ releases' = DropTransport(releases, DOMAIN connections)
    /\ Finish(t, Res("disconnect_all", "ok", Cardinality(DOMAIN connections)))
    /\ UNCHANGED <<dockerVars, connection_counter, clock, conn_lock, opened, profileVars>>

-----------------------------------------------------------------------------
(* list_connections, get_connection_info, is_connected *)

\* conn.info.clone(): the public fields only, never the transport.
InfoOf(c) ==
    [host |-> c.host, port |-> c.port, username |-> c.username,
     connection_id |-> c.connection_id, connected_at |-> c.connected_at,
     last_activity |-> c.last_activity]

ListConnections(t) ==
    /\ pc[t] = "idle"
    /\ LockFree(t)
    /\ Finish(t, Res("list_connections", "ok",
                     {InfoOf(connections[i]) : i \in DOMAIN connections}))
    /\ UNCHANGED <<dockerVars, sshVars, profileVars>>

GetConnectionInfo(t, id) ==
    /\ pc[t] = "idle"
    /\ LockFree(t)
    /\ IF id \in DOMAIN connections
       THEN Finish(t, Res("get_connection_info", "ok", InfoOf(connections[id])))
       ELSE Finish(t, Res("get_connection_info", "err", "Connection not found"))
    /\ UNCHANGED <<dockerVars, sshVars, profileVars>>

\* ssh2::Session::new() yields a blocking session and nothing calls set_blocking.
SessionIsBlocking == TRUE

\* Variant: every id is reported as connected.
IsConnectedValueAlwaysTrue(conns, id) == TRUE

\* Ok(!session.is_blocking()) for a present session, Ok(false) otherwise.
IsConnectedValue(conns, id) ==
    IF id \in DOMAIN conns
    THEN IF conns[id].session THEN ~SessionIsBlocking ELSE FALSE
    ELSE FALSE

IsConnected(t, id) ==
    /\ pc[t] = "idle"
    /\ LockFree(t)
    /\ Finish(t, Res("is_connected", "ok", IsConnectedValue(connections, id)))
    /\ UNCHANGED <<dockerVars, sshVars, profileVars>>

-----------------------------------------------------------------------------
(* execute_command *)

\* channel_session / exec / read_to_string / wait_close / exit_status
ExecOutcomes == {"ok", "exit_nonzero", "channel_failed"}

\* What the remote end sent back: the captured output and a non-zero exit status.
Output == "out"
ExitStatuses == {2}

\* Variant: the output is returned as a success whatever the exit status.
ExecResultIgnoringStatus(outcome, exit_status) ==
    IF outcome = "channel_failed"
    THEN Res("execute_command", "err", "Failed to create channel")
    ELSE Res("execute_command", "ok", Output)

\* Ok(output) on exit status 0, Err("Command failed with exit status {}: {}")
\* on any other, Err of the failed step otherwise.
ExecResult(outcome, exit_status) ==
    CASE outcome = "ok" -> Res("execute_command", "ok", Output)
      [] outcome = "exit_nonzero" ->
            [op |-> "execute_command", status |-> "err",
             val |-> "Command failed with exit status",
             exit_status |-> exit_status, output |-> Output]
      [] OTHER -> Res("execute_command", "err", "Failed to create channel")

\* The task has called execute_command and waits in connections.lock().await.
ExecCall(t, id) ==
    /\ pc[t] = "idle"
    /\ local' = [local EXCEPT ![t] = [NoLocal EXCEPT !.connection_id = id]]
    /\ pc' = [pc EXCEPT ![t] = "execute_lock"]
    /\ last' = NoResult
    /\ UNCHANGED <<dockerVars, sshVars, profileVars>>

\* Variant: the timestamp is written after a successful command only.
ExecTouchOnSuccessOnly(conns, id, now) == conns

\* Variant: the timestamp is written to every entry of the map.
ExecTouchEveryEntry(conns, id, now) ==
    [i \in DOMAIN conns |-> [conns[i] EXCEPT !.last_activity = now]]

\* connection.info.last_activity = Self::current_timestamp()
ExecTouch(conns, id, now) == [conns EXCEPT ![id].last_activity = now]

\* Variant: the guard is dropped right after the lookup.
ExecHoldsNothing(t) == NoTask

\* The guard lives until the function returns: it is held across the round trip.
ExecHolds(t) == t

ExecBegin(t) ==
    /\ pc[t] = "execute_lock"
    /\ LockFree(t)
    /\ LET id == local[t].connection_id IN
       IF id \in DOMAIN connections
       THEN /\ connections' = ExecTouch(connections, id, clock)
            /\ IF connections[id].session
               THEN /\ conn_lock' = ExecHolds(t)
                    /\ local' = [local EXCEPT ![t].current_time = clock]
                    /\ pc' = [pc EXCEPT ![t] = "execute_roundtrip"]
                    /\ UNCHANGED last
               ELSE /\ Finish(t, Res("execute_command", "err", "No active SSH session"))
                    /\ UNCHANGED conn_lock
       ELSE /\ Finish(t, Res("execute_command", "err", "Connection not found"))
            /\ UNCHANGED <<connections, conn_lock>>
    /\ UNCHANGED <<dockerVars, connection_counter, clock, opened, releases, profileVars>>

ExecRoundTrip(t, outcomes) ==
    /\ pc[t] = "execute_roundtrip"
    /\ \E outcome \in outcomes, exit_status \in ExitStatuses :
          Finish(t, ExecResult(outcome, exit_status))
    /\ conn_lock' = IF conn_lock = t THEN NoTask ELSE conn_lock
    /\ UNCHANGED <<dockerVars, connections, connection_counter, clock, opened, releases, profileVars>>

-----------------------------------------------------------------------------
(* SshDockerManager::check_docker_status *)

\* What one execute_command call returns for the table as it is.
ExecuteCommandResult(conns, id, outcome, exit_status) ==
    IF id \notin DOMAIN conns
    THEN Res("execute_command", "err", "Connection not found")
    ELSE IF ~conns[id].session
         THEN Res("execute_command", "err", "No active SSH session")
         ELSE ExecResult(outcome, exit_status)

\* error.to_lowercase(), as the words of the message.
LowercaseWords(r) ==
    CASE r.val = "Connection not found" -> <<"connection", "not", "found">>
      [] r.val = "No active SSH session" -> <<"no", "active", "ssh", "session">>
      [] r.val = "Failed to create channel" -> <<"failed", "to", "create", "channel">>
      [] r.val = "Command failed with exit status" ->
            <<"command", "failed", "with", "exit", "status",
              ToString(r.exit_status), r.output>>

\* str::contains on the words of the message and of the pattern.
Contains(words, pattern) ==
    \E i \in 1..(Len(words) - Len(pattern) + 1) :
       SubSeq(words, i, i + Len(pattern) - 1) = pattern

\* The Err arm of the `docker --version` match.
VersionErrorStatus(words) ==
    IF \/ Contains(words, <<"command", "not", "found">>)
       \/ Contains(words, <<"not", "found">>)
       \/ Contains(words, <<"no", "such", "file">>)
    THEN "NotInstalled"
    ELSE "SshNotConnected"

\* The Err arm of the `docker info` match: both branches give NotRunning.
InfoErrorStatus(words) ==
    IF \/ Contains(words, <<"cannot", "connect", "to", "the", "docker", "daemon">>)
       \/ Contains(words, <<"is", "the", "docker", "daemon", "running">>)
    THEN "NotRunning"
    ELSE "NotRunning"

StatusCall(t, id) ==
    /\ pc[t] = "idle"
    /\ local' = [local EXCEPT ![t] = [NoLocal EXCEPT !.connection_id = id]]
    /\ pc' = [pc EXCEPT ![t] = "status_version"]
    /\ last' = NoResult
    /\ UNCHANGED <<dockerVars, sshVars, profileVars>>

\* execute_command takes the connections lock, writes last_activity when the
\* id is in the table, and releases the lock when it returns.
StatusTouch(conns, id, now) ==
    IF id \in DOMAIN conns THEN ExecTouch(conns, id, now) ELSE conns

\* execute_command(connection_id, "docker --version") and its match.
StatusVersion(t, outcomes) ==
    /\ pc[t] = "status_version"
    /\ LockFree(t)
    /\ connections' = StatusTouch(connections, local[t].connection_id, clock)
    /\ \E outcome \in outcomes, exit_status \in ExitStatuses :
          LET r == ExecuteCommandResult(connections, local[t].connection_id,
                                        outcome, exit_status) IN
          IF r.status = "ok"
          THEN Goto(t, "status_info")
          ELSE Finish(t, Res("check_docker_status", "ok",
                             VersionErrorStatus(LowercaseWords(r))))
    /\ UNCHANGED <<dockerVars, connection_counter, clock, conn_lock, opened, releases,
                   profileVars>>

\* execute_command(connection_id, "docker info") and its match.
StatusInfo(t, outcomes) ==
    /\ pc[t] = "status_info"
    /\ LockFree(t)
    /\ connections' = StatusTouch(connections, local[t].connection_id, clock)
    /\ \E outcome \in outcomes, exit_status \in ExitStatuses :
          LET r == ExecuteCommandResult(connections, local[t].connection_id,
                                        outcome, exit_status) IN
          IF r.status = "ok"
          THEN Finish(t, Res("check_docker_status", "ok", "Running"))
          ELSE Finish(t, Res("check_docker_status", "ok",
                             InfoErrorStatus(LowercaseWords(r))))
    /\ UNCHANGED <<dockerVars, connection_counter, clock, conn_lock, opened, releases,
                   profileVars>>

-----------------------------------------------------------------------------
(* cleanup_inactive_connections *)

\* current_time - last_activity on u64 when the build wraps on overflow.
WrappingSub(a, b) == IF a >= b THEN a - b ELSE a - b + WordModulus

\* Variant: a session idle for exactly the threshold counts as idle.
IdleSetFromThreshold(conns, now, max_idle_seconds) ==
    {id \in DOMAIN conns : WrappingSub(now, conns[id].last_activity) >= max_idle_seconds}

IdleSet(conns, now, max_idle_seconds) ==
    {id \in DOMAIN conns : WrappingSub(now, conns[id].last_activity) > max_idle_seconds}

\* The subtraction overflows when some last_activity lies after current_time.
SubOverflows(conns, now) == \E id \in DOMAIN conns : conns[id].last_activity > now

\* overflow_checks: the build panics on arithmetic overflow (debug profile) or
\* wraps (release profile).  A panic unwinds before anything was removed.
Cleanup(t, max_idle_minutes, overflow_checks) ==
    /\ pc[t] = "idle"
    /\ LockFree(t)
    /\ IF overflow_checks /\ SubOverflows(connections, clock)
       THEN /\ Finish(t, Res("cleanup_inactive_connections", "panic",
                             "attempt to subtract with overflow"))
            /\ UNCHANGED <<connections, releases>>
       ELSE LET to_remove == IdleSet(connections, clock, max_idle_minutes * 60) IN
            /\ connections' = MapRemove(connections, to_remove)
            /\ releases' = DropTransport(releases, to_remove)
            /\ Finish(t, Res("cleanup_inactive_connections", "ok",
                             Cardinality(to_remove)))
    /\ UNCHANGED <<dockerVars, connection_counter, clock, conn_lock, opened, profileVars>>

-----------------------------------------------------------------------------
(* test_connection *)

TimeoutSecs == 10

\* Seconds the blocking connect / handshake / authenticate attempt may take.
AttemptSeconds == {1, 10, 30}

\* create_ssh_session holds no .await: once polled it runs to completion on the
\* calling thread and never returns Pending.
CreateSessionYields == FALSE

\* tokio::time::timeout polls the inner future first and looks at the deadline
\* only when that poll returned Pending.
TimeoutResult(yields, took, outcome) ==
    IF yields /\ took >= TimeoutSecs
    THEN [status |-> "err", msg |-> "Connection test timed out", after |-> TimeoutSecs]
    ELSE [status |-> IF outcome = "ok" THEN "ok" ELSE "err", msg |-> outcome, after |-> took]

TestBegin(t, request) ==
    /\ pc[t] = "idle"
    /\ local' = [local EXCEPT ![t] = [NoLocal EXCEPT !.request = request]]
    /\ pc' = [pc EXCEPT ![t] = "test_attempt"]
    /\ last' = NoResult
    /\ UNCHANGED <<dockerVars, sshVars, profileVars>>

\* Variant: the pair of a successful attempt is kept alive after the return.
TestSessionKept(outcome) == IF outcome = "ok" THEN "kept" ELSE "none"

\* Ok(Ok(_)): the (session, tcp_stream) pair of a successful attempt is bound to
\* nothing and dropped at once; a failed attempt leaves no pair behind.
TestSession(outcome) == IF outcome = "ok" THEN "dropped" ELSE "none"

TestAttempt(t, outcomes) ==
    /\ pc[t] = "test_attempt"
    /\ \E outcome \in outcomes, took \in AttemptSeconds :
          LET r == TimeoutResult(CreateSessionYields, took, outcome) IN
          Finish(t, Res("test_connection", r.status,
                        [msg |-> r.msg, took |-> took, after |-> r.after,
                         session |-> TestSession(outcome)]))
    /\ UNCHANGED <<dockerVars, sshVars, profileVars>>

-----------------------------------------------------------------------------
(* The saved-profile store *)

MaxSaved == 2

Matches(rec, target) ==
    rec.host = target.host /\ rec.port = target.port /\ rec.username = target.username

\* The saved_connections lock is taken for the push / retain / rename and dropped
\* before save_connections takes it again for the write.
AddSaved(t, target, name) ==
    /\ pc[t] = "idle"
    /\ Len(saved_connections) < MaxSaved
    /\ SavedLockFree(t)
    /\ saved_lock' = MutationHolds(t)
    /\ saved_connections' = PushSaved(saved_connections, SavedOf(target, name))
    /\ pc' = [pc EXCEPT ![t] = "add_write"]
    /\ last' = NoResult
    /\ UNCHANGED <<dockerVars, sshVars, config_file, local>>

\* Variant: only the first record with the key is removed.
RemoveFirstMatchOnly(saved, target) ==
    IF \E i \in 1..Len(saved) : Matches(saved[i], target)
    THEN LET k == CHOOSE i \in 1..Len(saved) :
                     /\ Matches(saved[i], target)
                     /\ \A j \in 1..(i - 1) : ~Matches(saved[j], target)
         IN SubSeq(saved, 1, k - 1) \o SubSeq(saved, k + 1, Len(saved))
    ELSE saved

\* saved_connections.retain(|conn| !(key matches))
RetainOthers(saved, target) == SelectSeq(saved, LAMBDA rec : ~Matches(rec, target))

RemoveSaved(t, target) ==
    /\ pc[t] = "idle"
    /\ SavedLockFree(t)
    /\ saved_lock' = MutationHolds(t)
    /\ saved_connections' = RetainOthers(saved_connections, target)
    /\ pc' = [pc EXCEPT ![t] = "remove_write"]
    /\ last' = NoResult
    /\ UNCHANGED <<dockerVars, sshVars, config_file, local>>

\* iter_mut().find(key matches): the position of the first match, 0 when none.
FindFirst(saved, target) ==
    IF \E i \in 1..Len(saved) : Matches(saved[i], target)
    THEN CHOOSE i \in 1..Len(saved) :
            /\ Matches(saved[i], target)
            /\ \A j \in 1..(i - 1) : ~Matches(saved[j], target)
    ELSE 0

\* Variant: every record with the key is renamed.
RenameEveryMatch(saved, target, name) ==
    [i \in 1..Len(saved) |->
        IF Matches(saved[i], target) THEN [saved[i] EXCEPT !.name = name] ELSE saved[i]]

\* Variant: an upsert by key, which renames the first match and drops the others.
RenameAndDropDuplicates(saved, target, name) ==
    IF FindFirst(saved, target) = 0
    THEN saved
    ELSE SelectSeq([i \in 1..Len(saved) |->
                      IF i = FindFirst(saved, target)
                      THEN [saved[i] EXCEPT !.name = name]
                      ELSE [saved[i] EXCEPT !.name = <<"dup">>]],
                   LAMBDA rec : ~(Matches(rec, target) /\ rec.name = <<"dup">>))

\* connection.name = name, on the record find() returned.
RenameFirst(saved, target, name) ==
    IF FindFirst(saved, target) = 0
    THEN saved
    ELSE [saved EXCEPT ![FindFirst(saved, target)].name = name]

UpdateSavedName(t, target, name) ==
    /\ pc[t] = "idle"
    /\ SavedLockFree(t)
    /\ saved_connections' = RenameFirst(saved_connections, target, name)
    /\ IF FindFirst(saved_connections, target) = 0
       THEN /\ pc' = pc
            /\ last' = Res("update_saved_connection_name", "ok", <<>>)
            /\ saved_lock' = NoTask     \* the guard goes out of scope at the return
       ELSE /\ pc' = [pc EXCEPT ![t] = "update_write"]
            /\ last' = NoResult
            /\ saved_lock' = MutationHolds(t)
    /\ UNCHANGED <<dockerVars, sshVars, config_file, local>>

SaveOps ==
    [add_write |-> "add_saved_connection", remove_write |-> "remove_saved_connection",
     update_write |-> "update_saved_connection_name"]

\* save_connections, and the caller returning what it returned.
SaveConnections(t, writes) ==
    /\ pc[t] \in DOMAIN SaveOps
    /\ SavedLockFree(t)
    /\ \E w \in writes :
          /\ config_file' = WriteFile(saved_connections, config_file, w)
          /\ Finish(t, Res(SaveOps[pc[t]], SaveStatus(w), <<>>))
    /\ UNCHANGED <<dockerVars, sshVars, saved_connections, saved_lock>>

GetSavedConnections(t) ==
    /\ pc[t] = "idle"
    /\ SavedLockFree(t)
    /\ Finish(t, Res("get_saved_connections", "ok", saved_connections))
    /\ UNCHANGED <<dockerVars, sshVars, profileVars>>

-----------------------------------------------------------------------------
(* DockerManager: the previous-sample cache and the CPU delta *)

MIN_CPU_INTERVAL == 1

Containers == {"c1", "c2"}

\* Seconds at which docker_system_usage reads the clock.
MetricInstants == {0, 1, 2}

\* DockerManager::new(): a client and an empty previous_stats map.
NewManager == [previous_stats |-> EmptyMap]

\* The parts of a ContainerStatsResponse the engine reads.  shape tells which of
\* cpu_stats, precpu_stats and their cpu_usage are present.
SnapshotShapes ==
    {"full", "no_cpu_stats", "no_precpu_stats", "no_cpu_usage", "no_precpu_usage"}

\* (online_cpus, percpu_usage.len()) as Options.
CpuCounts == {<< <<2>>, <<>> >>, << <<>>, <<>> >>, << <<>>, <<0>> >>, << <<>>, <<4>> >>}

IoKinds == {"none", "some"}

SnapshotProduct ==
    [shape : {"full"},
     total_usage : {<<100>>, <<300>>},
     system_cpu_usage : {<<1000>>, <<1800>>},
     pre_total_usage : {<<>>, <<100>>},
     pre_system_cpu_usage : {<<1000>>},
     cpus : CpuCounts,
     io : IoKinds]

BareSnapshots ==
    [shape : SnapshotShapes \ {"full"},
     total_usage : {<<100>>}, system_cpu_usage : {<<1000>>},
     pre_total_usage : {<<>>}, pre_system_cpu_usage : {<<1000>>},
     cpus : {<< <<2>>, <<>> >>}, io : {"some"}]

\* The snapshot (300, 1800 | 100, 1000) on two CPUs with I/O, and every snapshot
\* that differs from it in its counters, in its precpu counter, in its CPU
\* counts or in its I/O.
FullSnapshots ==
    {st \in SnapshotProduct :
        LET counters == st.total_usage = <<300>> /\ st.system_cpu_usage = <<1800>>
            precpu == st.pre_total_usage = <<100>>
            cpus == st.cpus = << <<2>>, <<>> >>
            io == st.io = "some"
        IN  \/ precpu /\ cpus /\ io
            \/ counters /\ cpus /\ io
            \/ counters /\ precpu /\ io
            \/ counters /\ precpu /\ cpus}

Snapshots == FullSnapshots \cup BareSnapshots

\* networks: two interfaces, one without tx_bytes; None when io = "none".
Networks(stats) ==
    IF stats.io = "none" THEN <<>>
    ELSE << <<[rx_bytes |-> <<10>>, tx_bytes |-> <<20>>],
              [rx_bytes |-> <<5>>, tx_bytes |-> <<>>]>> >>

\* blkio_stats.io_service_bytes_recursive; None when io = "none".
BlkioEntries(stats) ==
    IF stats.io = "none" THEN <<>>
    ELSE << <<[op |-> <<"Read">>, value |-> <<7>>],
              [op |-> <<"Write">>, value |-> <<9>>],
              [op |-> <<"Sync">>, value |-> <<100>>],
              [op |-> <<>>, value |-> <<1>>]>> >>

RECURSIVE Sum(_)
Sum(seq) == IF seq = <<>> THEN 0 ELSE Head(seq) + Sum(Tail(seq))

\* Sum of rx_bytes and of tx_bytes over the interfaces, a missing value as 0.
GetNetworkStats(stats) ==
    IF Networks(stats) = <<>> THEN <<0, 0>>
    ELSE LET nets == Networks(stats)[1] IN
         <<Sum([i \in 1..Len(nets) |-> UnwrapOr(nets[i].rx_bytes, 0)]),
           Sum([i \in 1..Len(nets) |-> UnwrapOr(nets[i].tx_bytes, 0)])>>

\* Sum of the "Read" and of the "Write" entries, a missing value as 0.
GetBlockStats(stats) ==
    IF BlkioEntries(stats) = <<>> THEN <<0, 0>>
    ELSE LET io == BlkioEntries(stats)[1] IN
         <<Sum([i \in 1..Len(io) |->
                  IF io[i].op = <<"Read">> THEN UnwrapOr(io[i].value, 0) ELSE 0]),
           Sum([i \in 1..Len(io) |->
                  IF io[i].op = <<"Write">> THEN UnwrapOr(io[i].value, 0) ELSE 0])>>

\* Variant: a subtraction with no floor at 0.
SubGoingNegative(a, b) == a - b

\* u64::saturating_sub
SaturatingSub(a, b) == IF a >= b THEN a - b ELSE 0

HasCpuStats(stats) == stats.shape = "full"

\* Variant: the cached sample is the baseline whenever there is one.
BaselineIgnoringInterval(cache, id, now) ==
    IF id \in DOMAIN cache THEN "cache" ELSE "precpu_first_sample"

\* Which pair of counters the deltas are taken against.
Baseline(cache, id, now) ==
    IF id \in DOMAIN cache
    THEN IF SaturatingSub(now, cache[id].timestamp) >= MIN_CPU_INTERVAL
         THEN "cache" ELSE "precpu_short_interval"
    ELSE "precpu_first_sample"

\* Variant: a first sample is measured from 0 and not from the precpu counters.
CpuDeltasFirstSampleFromZero(cache, id, stats, now) ==
    IF id \in DOMAIN cache
    THEN IF SaturatingSub(now, cache[id].timestamp) >= MIN_CPU_INTERVAL
         THEN <<SaturatingSub(UnwrapOr(stats.total_usage, 0), cache[id].cpu_total),
                SaturatingSub(UnwrapOr(stats.system_cpu_usage, 0), cache[id].system_total)>>
         ELSE <<SaturatingSub(UnwrapOr(stats.total_usage, 0),
                              UnwrapOr(stats.pre_total_usage, 0)),
                SaturatingSub(UnwrapOr(stats.system_cpu_usage, 0),
                              UnwrapOr(stats.pre_system_cpu_usage, 0))>>
    ELSE <<UnwrapOr(stats.total_usage, 0), UnwrapOr(stats.system_cpu_usage, 0)>>

\* (cpu_delta, system_delta)
CpuDeltas(cache, id, stats, now) ==
    LET cpu_total == UnwrapOr(stats.total_usage, 0)
        system_total == UnwrapOr(stats.system_cpu_usage, 0)
    IN  IF Baseline(cache, id, now) = "cache"
        THEN <<SaturatingSub(cpu_total, cache[id].cpu_total),
               SaturatingSub(system_total, cache[id].system_total)>>
        ELSE <<SaturatingSub(cpu_total, UnwrapOr(stats.pre_total_usage, 0)),
               SaturatingSub(system_total, UnwrapOr(stats.pre_system_cpu_usage, 0))>>

\* Variant: online_cpus is not looked at.
NumberCpusFromPercpuOnly(stats) ==
    IF stats.cpus[2] # <<>>
    THEN (IF stats.cpus[2][1] > 1 THEN stats.cpus[2][1] ELSE 1)
    ELSE 1

\* online_cpus, else percpu_usage.len().max(1), else 1
NumberCpus(stats) ==
    IF stats.cpus[1] # <<>> THEN stats.cpus[1][1]
    ELSE IF stats.cpus[2] # <<>>
         THEN (IF stats.cpus[2][1] > 1 THEN stats.cpus[2][1] ELSE 1)
         ELSE 1

\* PreviousStats built from this call's snapshot.
SampleOf(stats, now) ==
    [timestamp |-> now,
     cpu_total |-> UnwrapOr(stats.total_usage, 0),
     system_total |-> UnwrapOr(stats.system_cpu_usage, 0),
     network_rx |-> GetNetworkStats(stats)[1],
     network_tx |-> GetNetworkStats(stats)[2],
     block_read |-> GetBlockStats(stats)[1],
     block_write |-> GetBlockStats(stats)[2]]

\* Variant: the cache is written after the zero-divisor return instead of before.
CacheAfterSkippingZeroDelta(cache, id, stats, now) ==
    IF HasCpuStats(stats) /\ CpuDeltas(cache, id, stats, now)[2] # 0
    THEN MapInsert(cache, id, SampleOf(stats, now))
    ELSE cache

\* Variant: the cache is written whether or not the snapshot has CPU stats.
CacheAfterAlwaysInsert(cache, id, stats, now) ==
    MapInsert(cache, id, SampleOf(stats, now))

\* previous_stats after calculate_cpu_percentage_with_cache.
CacheAfter(cache, id, stats, now) ==
    IF HasCpuStats(stats)
    THEN MapInsert(cache, id, SampleOf(stats, now))
    ELSE cache

\* Variant: no return before the division when system_delta is 0.
CpuCalculateWithoutGuard(cache, id, stats, now) ==
    IF ~HasCpuStats(stats)
    THEN [online_cpus |-> 0, usage_cpu |-> [num |-> 0, den |-> 1]]
    ELSE [online_cpus |-> NumberCpus(stats),
          usage_cpu |-> [num |-> CpuDeltas(cache, id, stats, now)[1]
                                    * NumberCpus(stats) * 100,
                         den |-> CpuDeltas(cache, id, stats, now)[2]]]

\* CpuCalculate; usage_cpu is the quotient num / den of the f64 expression
\* (cpu_delta / system_delta) * number_cpus * 100.0, floored at 0.
CpuCalculate(cache, id, stats, now) ==
    IF ~HasCpuStats(stats)
    THEN [online_cpus |-> 0, usage_cpu |-> [num |-> 0, den |-> 1]]
    ELSE LET d == CpuDeltas(cache, id, stats, now) IN
         IF d[2] = 0
         THEN [online_cpus |-> NumberCpus(stats), usage_cpu |-> [num |-> 0, den |-> 1]]
         ELSE [online_cpus |-> NumberCpus(stats),
               usage_cpu |-> [num |-> d[1] * NumberCpus(stats) * 100, den |-> d[2]]]

\* What one call leaves behind besides the cache: the id and snapshot it was
\* given, the cache entry it found (prev_stats, as an Option), the baseline and
\* deltas it worked with (none without CPU stats), and its return.
Calculation(cache, id, stats, now) ==
    [resource_id |-> id,
     stats |-> stats,
     prev_stats |-> IF id \in DOMAIN cache THEN <<cache[id]>> ELSE <<>>,
     baseline |-> IF HasCpuStats(stats) THEN Baseline(cache, id, now) ELSE "none",
     deltas |-> IF HasCpuStats(stats) THEN CpuDeltas(cache, id, stats, now) ELSE <<>>,
     returned |-> CpuCalculate(cache, id, stats, now)]

-----------------------------------------------------------------------------
(* The docker_* commands over DockerManagerState *)

DockerCommands == {"docker_system_usage", "docker_status"}

\* get_docker_manager: under the state lock, build a manager if the slot is empty
\* (DockerManager::new may fail), then take() it out of the slot.  The clock
\* reading of get_docker_system_usage is taken here as well: nothing the command
\* does before it reads the clock touches the state.
GetDockerManager(t, cmd, new_ok) ==
    /\ pc[t] = "idle"
    /\ IF manager_state = NoManager /\ ~new_ok
       THEN /\ Finish(t, Res(cmd, "err", "Falha ao conectar com Docker daemon"))
            /\ UNCHANGED <<manager_state, held, sampled>>
       ELSE /\ held' = [held EXCEPT ![t] =
                          IF manager_state = NoManager THEN NewManager ELSE manager_state]
            /\ manager_state' = NoManager
            /\ sampled' = [sampled EXCEPT ![t] = {}]
            /\ local' = [local EXCEPT ![t] = [NoLocal EXCEPT !.current_time = clock]]
            /\ pc' = [pc EXCEPT ![t] = cmd]
            /\ last' = NoResult
    /\ UNCHANGED <<sshVars, profileVars>>

\* One turn of the loop in get_docker_system_usage: stats for a running container
\* arrive and go through calculate_cpu_percentage_with_cache.
UsageSample(t, id, stats) ==
    /\ pc[t] = "docker_system_usage"
    /\ id \notin sampled[t]
    /\ held' = [held EXCEPT ![t].previous_stats =
                   CacheAfter(held[t].previous_stats, id, stats, local[t].current_time)]
    /\ sampled' = [sampled EXCEPT ![t] = @ \cup {id}]
    /\ last' = Res("calculate_cpu_percentage_with_cache", "ok",
                   Calculation(held[t].previous_stats, id, stats, local[t].current_time))
    /\ UNCHANGED <<sshVars, profileVars, manager_state, pc, local>>

\* set_docker_manager, on the Ok and on the Err arm alike.
SetDockerManager(t, status) ==
    /\ pc[t] \in DockerCommands
    /\ manager_state' = held[t]
    /\ held' = [held EXCEPT ![t] = NoManager]
    /\ sampled' = [sampled EXCEPT ![t] = {}]
    /\ Finish(t, Res(pc[t], status, <<>>))
    /\ UNCHANGED <<sshVars, profileVars>>

-----------------------------------------------------------------------------
(* Spec: tasks calling the registry concurrently *)

OneTarget == {[host |-> "h1", port |-> 22, username |-> "root"]}
OneRequest == {RequestOf(target, "pw1") : target \in OneTarget}
FewOutcomes == {"ok", "not_authenticated"}

Next ==
    \/ ClockStep(Instants)
    \/ \E t \in Tasks, request \in OneRequest : ConnectBegin(t, request)
    \/ \E t \in Tasks : ConnectSession(t, FewOutcomes)
    \/ \E t \in Tasks : ConnectSave(t)
    \/ \E t \in Tasks : ConnectWrite(t, {"written"})
    \/ \E t \in Tasks : ConnectInsert(t)
    \/ \E t \in Tasks, id \in AllConnIds : Disconnect(t, id)
    \/ \E t \in Tasks : DisconnectRelease(t)
    \/ \E t \in Tasks, failed \in SUBSET AllConnIds : DisconnectAll(t, failed)
    \/ \E t \in Tasks, id \in AllConnIds : ExecCall(t, id)
    \/ \E t \in Tasks : ExecBegin(t)
    \/ \E t \in Tasks : ExecRoundTrip(t, {"ok", "exit_nonzero"})
    \/ \E t \in Tasks, m \in IdleMinutes, oc \in BOOLEAN : Cleanup(t, m, oc)
    \/ \E t \in Tasks : ListConnections(t)
    \/ \E t \in Tasks, id \in AllConnIds : GetConnectionInfo(t, id)
    \/ \E t \in Tasks, id \in AllConnIds : IsConnected(t, id)

Spec == Init /\ [][Next]_vars

(* SpecSeq: one caller, the full input sets *)

Caller == 1

NextSeq ==
    \/ ClockStep(Instants)
    \/ \E request \in Requests : ConnectBegin(Caller, request)
    \/ ConnectSession(Caller, SessionOutcomes)
    \/ ConnectSave(Caller)
    \/ ConnectWrite(Caller, {"written"})
    \/ ConnectInsert(Caller)
    \/ \E id \in AllConnIds : Disconnect(Caller, id)
    \/ DisconnectRelease(Caller)
    \/ \E failed \in SUBSET AllConnIds : DisconnectAll(Caller, failed)
    \/ \E id \in AllConnIds : ExecCall(Caller, id)
    \/ ExecBegin(Caller)
    \/ ExecRoundTrip(Caller, ExecOutcomes)
    \/ \E m \in IdleMinutes, oc \in BOOLEAN : Cleanup(Caller, m, oc)
    \/ \E request \in Requests : TestBegin(Caller, request)
    \/ TestAttempt(Caller, SessionOutcomes)
    \/ ListConnections(Caller)
    \/ \E id \in AllConnIds : GetConnectionInfo(Caller, id)
    \/ \E id \in AllConnIds : IsConnected(Caller, id)

SpecSeq == Init /\ [][NextSeq]_vars

(* SpecProfiles: one caller working on the saved-profile store; profiles are
   added without a name and get one through update_saved_connection_name *)

NextProfiles ==
    \/ \E request \in OneRequest :
          Len(saved_connections) < MaxSaved /\ ConnectBegin(Caller, request)
    \/ ConnectSession(Caller, FewOutcomes)
    \/ ConnectSave(Caller)
    \/ ConnectWrite(Caller, WriteKinds)
    \/ ConnectInsert(Caller)
    \/ \E target \in Targets : AddSaved(Caller, target, <<>>)
    \/ \E target \in Targets : RemoveSaved(Caller, target)
    \/ \E target \in Targets, name \in Names : UpdateSavedName(Caller, target, name)
    \/ SaveConnections(Caller, WriteKinds)
    \/ GetSavedConnections(Caller)

SpecProfiles == Init /\ [][NextProfiles]_vars

(* SpecStore: two tasks working on the saved-profile store of one SshClient *)

NextStore ==
    \/ \E t \in Tasks, target \in Targets : AddSaved(t, target, <<>>)
    \/ \E t \in Tasks, target \in Targets : RemoveSaved(t, target)
    \/ \E t \in Tasks, target \in Targets, name \in Names :
          UpdateSavedName(t, target, name)
    \/ \E t \in Tasks : SaveConnections(t, WriteKinds)
    \/ \E t \in Tasks : GetSavedConnections(t)

SpecStore == Init /\ [][NextStore]_vars

(* SpecPersist: two tasks adding, removing, renaming and connecting on one
   SshClient while every write of the profile file succeeds *)

NextPersist ==
    \/ \E t \in Tasks, request \in OneRequest :
          Len(saved_connections) < MaxSaved /\ ConnectBegin(t, request)
    \/ \E t \in Tasks : ConnectSession(t, FewOutcomes)
    \/ \E t \in Tasks : ConnectSave(t)
    \/ \E t \in Tasks : ConnectWrite(t, {"written"})
    \/ \E t \in Tasks : ConnectInsert(t)
    \/ \E t \in Tasks, target \in Targets : AddSaved(t, target, <<>>)
    \/ \E t \in Tasks, target \in Targets : RemoveSaved(t, target)
    \/ \E t \in Tasks, target \in Targets, name \in Names :
          UpdateSavedName(t, target, name)
    \/ \E t \in Tasks : SaveConnections(t, {"written"})

SpecPersist == Init /\ [][NextPersist]_vars

(* SpecLive: two tasks on one SshClient, with the scheduling the runtime gives:
   tokio's Mutex hands a lock to its waiters in FIFO order, so a task waiting
   for a lock that is free again and again gets it (strong fairness), and a
   task whose transport call returns goes on (weak fairness). *)

NextLive ==
    \/ \E t \in Tasks, request \in OneRequest :
          Len(saved_connections) < MaxSaved /\ ConnectBegin(t, request)
    \/ \E t \in Tasks : ConnectSession(t, FewOutcomes)
    \/ \E t \in Tasks : ConnectSave(t)
    \/ \E t \in Tasks : ConnectWrite(t, {"written"})
    \/ \E t \in Tasks : ConnectInsert(t)
    \/ \E t \in Tasks, id \in AllConnIds : Disconnect(t, id)
    \/ \E t \in Tasks : DisconnectRelease(t)
    \/ \E t \in Tasks, id \in AllConnIds : ExecCall(t, id)
    \/ \E t \in Tasks : ExecBegin(t)
    \/ \E t \in Tasks : ExecRoundTrip(t, {"ok"})
    \/ \E t \in Tasks, target \in OneTarget : AddSaved(t, target, <<>>)
    \/ \E t \in Tasks, target \in OneTarget : RemoveSaved(t, target)
    \/ \E t \in Tasks, target \in OneTarget :
          UpdateSavedName(t, target, <<"prod">>)
    \/ \E t \in Tasks : SaveConnections(t, {"written"})

\* The steps in which a started operation waits for one of the two locks.
LockStep(t) ==
    \/ ConnectSave(t)
    \/ ConnectWrite(t, {"written"})
    \/ ConnectInsert(t)
    \/ ExecBegin(t)
    \/ SaveConnections(t, {"written"})

\* The steps in which a started operation waits for a transport call to return.
TransportStep(t) ==
    \/ ConnectSession(t, FewOutcomes)
    \/ DisconnectRelease(t)
    \/ ExecRoundTrip(t, {"ok"})

SpecLive ==
    /\ Init
    /\ [][NextLive]_vars
    /\ \A t \in Tasks : SF_vars(LockStep(t)) /\ WF_vars(TransportStep(t))

(* SpecStatus: one caller connecting, disconnecting, sweeping and asking for
   the Docker status of a session id *)

NextStatus ==
    \/ ClockStep(Instants)
    \/ \E request \in OneRequest : ConnectBegin(Caller, request)
    \/ ConnectSession(Caller, FewOutcomes)
    \/ ConnectSave(Caller)
    \/ ConnectWrite(Caller, {"written"})
    \/ ConnectInsert(Caller)
    \/ \E id \in AllConnIds : Disconnect(Caller, id)
    \/ DisconnectRelease(Caller)
    \/ \E m \in IdleMinutes, oc \in BOOLEAN : Cleanup(Caller, m, oc)
    \/ \E id \in AllConnIds : StatusCall(Caller, id)
    \/ StatusVersion(Caller, ExecOutcomes)
    \/ StatusInfo(Caller, ExecOutcomes)

SpecStatus == Init /\ [][NextStatus]_vars

(* SpecMetrics: one docker_* command at a time, two containers.  A command
   reads the clock once, so the clock is let run between commands only. *)

NextMetrics ==
    \/ pc[Caller] = "idle" /\ ClockStep(MetricInstants)
    \/ \E cmd \in DockerCommands, ok \in BOOLEAN : GetDockerManager(Caller, cmd, ok)
    \/ \E id \in Containers, stats \in Snapshots : UsageSample(Caller, id, stats)
    \/ \E status \in {"ok", "err"} : SetDockerManager(Caller, status)

SpecMetrics == Init /\ [][NextMetrics]_vars

(* SpecDocker: docker_* commands running concurrently, one container *)

FewSnapshots ==
    {st \in FullSnapshots :
        st.cpus = << <<2>>, <<>> >> /\ st.io = "some" /\ st.pre_total_usage = <<100>>}

NextDocker ==
    \/ ClockStep(MetricInstants)
    \/ \E t \in Tasks, cmd \in DockerCommands, ok \in BOOLEAN : GetDockerManager(t, cmd, ok)
    \/ \E t \in Tasks, stats \in FewSnapshots : UsageSample(t, "c1", stats)
    \/ \E t \in Tasks, status \in {"ok", "err"} : SetDockerManager(t, status)

SpecDocker == Init /\ [][NextDocker]_vars

-----------------------------------------------------------------------------
(* Properties of the session registry *)

ConnectPcs == {"connect_session", "connect_save", "connect_write", "connect_insert"}

\* The task owns a session it built and has not stored yet.
HoldsSession(t) == pc[t] \in {"connect_save", "connect_write", "connect_insert"}

InCritical(t) == pc[t] \in {"execute_roundtrip", "disconnect_release"}

\* C1: a sweep removes exactly the sessions whose last activity is older than the
\* threshold -- a session active at or after the sweep's `now` stays -- returns
\* how many it removed, and does not fault.
SweepRemovesOnlyOlder ==
    [][\A m \in IdleMinutes, oc \in BOOLEAN :
         Cleanup(Caller, m, oc) =>
            /\ last'.status = "ok"
            /\ DOMAIN connections' =
                 {id \in DOMAIN connections :
                     ~(clock - connections[id].last_activity > m * 60)}
            /\ last'.val = Cardinality(DOMAIN connections \ DOMAIN connections')]_vars

\* C2 (state part): a transport is dropped at most once and only after its entry
\* left the table; an entry that left the table is either already released or is
\* being released by the task that removed it and still holds the lock.
TransportReleasedOnceInv ==
    \A id \in AllConnIds :
        /\ releases[id] <= 1
        /\ releases[id] <= opened[id]
        /\ id \in DOMAIN connections => releases[id] = 0
        /\ ( /\ opened[id] = 1
             /\ id \notin DOMAIN connections
             /\ ~(\E t \in Tasks : HoldsSession(t) /\ local[t].connection_id = id) )
           => \/ releases[id] = 1
              \/ \E t \in Tasks : /\ pc[t] = "disconnect_release"
                                  /\ local[t].connection_id = id
                                  /\ conn_lock = t

\* C2 (step part): the caller that finds the id gone gets "Connection not found".
LoserGetsNotFound ==
    [][\A t \in Tasks :
         /\ (\E id \in AllConnIds \ DOMAIN connections : Disconnect(t, id))
               => last' = Res("disconnect", "err", "Connection not found")
         /\ (ExecBegin(t) /\ local[t].connection_id \notin DOMAIN connections)
               => last' = Res("execute_command", "err", "Connection not found")]_vars

\* C2: under every interleaving of disconnect, disconnect_all, sweep and execute
\* the transport of a session is released exactly once, removal and release are
\* one critical section, and the loser of a race gets "Connection not found".
TransportReleasedOnce == []TransportReleasedOnceInv /\ LoserGetsNotFound

C2Witness ==
    \E id \in AllConnIds :
        /\ releases[id] = 1
        /\ id \notin DOMAIN connections
        /\ last = Res("execute_command", "err", "Connection not found")

\* C5: a test_connection whose attempt lasts longer than the bound returns the
\* timed-out outcome, and returns it when the bound is reached.
TestHonoursTimeout ==
    (last.op = "test_connection" /\ last.val.took > TimeoutSecs)
       => (last.val.msg = "Connection test timed out" /\ last.val.after = TimeoutSecs)

\* C6: no connection id is given to more than one session, neither by concurrent
\* connects nor after a disconnect, sweep, drain or failed connect.
ConnectionIdsUnique ==
    /\ \A id \in AllConnIds : opened[id] <= 1
    /\ \A t \in Tasks :
          pc[t] \in ConnectPcs =>
             /\ local[t].connection_id \notin DOMAIN connections
             /\ releases[local[t].connection_id] = 0
             /\ pc[t] = "connect_session" => opened[local[t].connection_id] = 0
             /\ \A u \in Tasks \ {t} :
                   pc[u] \in ConnectPcs => local[u].connection_id # local[t].connection_id
    /\ (last.op = "connect" /\ last.status = "ok") => opened[last.val] = 1

C6Witness ==
    /\ releases[FormatConnectionId(0)] = 1
    /\ last.op = "connect" /\ last.status = "ok"
    /\ last.val \in DOMAIN connections

\* C7: a connect whose TCP connect, handshake or authentication fails (the
\* unset authenticated flag included) returns an error, and no step of it
\* changes the session table or the saved-profile list.
FailedConnectStoresNothing ==
    [][\A t \in Tasks :
         /\ (\E request \in Requests : ConnectBegin(t, request))
               => UNCHANGED <<connections, saved_connections>>
         /\ \A o \in SessionOutcomes \ {"ok"} :
               ConnectSession(t, {o})
                  => /\ pc'[t] = "idle"
                     /\ last' = Res("connect", "err", o)
                     /\ UNCHANGED <<connections, saved_connections>>]_vars

C7Witness ==
    /\ last = Res("connect", "err", "not_authenticated")
    /\ connections # EmptyMap
    /\ saved_connections # <<>>

\* C8 (state part): the lock is held exactly by the one task that is inside a
\* table critical section, and the session of an execute in flight is in the table.
ExecSerializesInv ==
    /\ \A t \in Tasks : InCritical(t) <=> conn_lock = t
    /\ \A t \in Tasks :
          pc[t] = "execute_roundtrip" =>
             /\ local[t].connection_id \in DOMAIN connections
             /\ releases[local[t].connection_id] = 0

TableOps ==
    {"disconnect", "disconnect_all", "list_connections", "get_connection_info",
     "is_connected", "execute_command", "cleanup_inactive_connections"}

\* C8 (step part): while an execute is in flight no other table operation runs.
ExecSerializesStep ==
    [][(\E t \in Tasks : pc[t] = "execute_roundtrip") =>
          /\ connections' = connections
          /\ releases' = releases
          /\ (last' # last /\ last'.op \in TableOps) =>
                \E t \in Tasks : pc[t] = "execute_roundtrip" /\ pc'[t] = "idle"]_vars

\* C8: execute_command keeps the table lock from the lookup to the end of the
\* round trip; no table operation overlaps it and its session is not removed.
ExecSerializes == []ExecSerializesInv /\ ExecSerializesStep

C8Witness ==
    \E t \in Tasks, u \in Tasks :
        /\ pc[t] = "execute_roundtrip" /\ conn_lock = t
        /\ pc[u] = "execute_lock"
        /\ local[u].connection_id = local[t].connection_id

\* C9 (state part): the last_activity an execute wrote is still there while it
\* runs, and a waiting execute waits only for a task that will release the lock.
ConcurrentExecInv ==
    \A t \in Tasks :
        /\ pc[t] = "execute_roundtrip" =>
              /\ local[t].connection_id \in DOMAIN connections
              /\ connections[local[t].connection_id].last_activity = local[t].current_time
        /\ pc[t] = "execute_lock" =>
              \/ conn_lock = NoTask
              \/ (conn_lock \in Tasks \ {t} /\ InCritical(conn_lock))

\* C9 (step part): an execute adds and removes no session and changes nothing but
\* the last_activity of its own session, which it sets to the time of the call.
ConcurrentExecStep ==
    [][\A t \in Tasks :
         /\ ExecBegin(t) =>
              LET id == local[t].connection_id IN
              /\ DOMAIN connections' = DOMAIN connections
              /\ \A j \in DOMAIN connections \ {id} : connections'[j] = connections[j]
              /\ id \in DOMAIN connections =>
                    connections'[id] = [connections[id] EXCEPT !.last_activity = clock]
         /\ (\E o \in ExecOutcomes : ExecRoundTrip(t, {o})) => connections' = connections]_vars

\* C9: concurrent executes on distinct ids all get through and leave the table
\* with the same sessions, each carrying the last_activity its own execute wrote.
ConcurrentExecKeepsTable == []ConcurrentExecInv /\ ConcurrentExecStep

C9Witness ==
    \E t \in Tasks, u \in Tasks :
        /\ pc[t] = "execute_roundtrip" /\ pc[u] = "execute_lock"
        /\ local[t].connection_id # local[u].connection_id
        /\ {local[t].connection_id, local[u].connection_id} \subseteq DOMAIN connections
        /\ connections[local[t].connection_id].last_activity
              # connections[local[t].connection_id].connected_at

-----------------------------------------------------------------------------
(* Properties of the saved-profile store *)

NoSharedKey(saved) ==
    \A i \in 1..Len(saved), j \in 1..Len(saved) :
        i # j => KeyOf(saved[i]) # KeyOf(saved[j])

\* C4: what get_saved_connections returns right after an
\* update_saved_connection_name holds no two records with the same
\* (host, port, username).
UniqueKeysAfterUpdate ==
    [][\A name \in Names, target \in Targets :
         UpdateSavedName(Caller, target, name) => NoSharedKey(saved_connections')]_vars

\* C4 (amended): update_saved_connection_name sets the name of the first record
\* with the key and touches nothing else -- no record is added or dropped and
\* no key changes -- so the list holds two records with one key after it exactly
\* when it did before.
UpdateKeepsKeys ==
    [][\A name \in Names, target \in Targets :
         UpdateSavedName(Caller, target, name) =>
            /\ Len(saved_connections') = Len(saved_connections)
            /\ \A i \in 1..Len(saved_connections) :
                  /\ KeyOf(saved_connections'[i]) = KeyOf(saved_connections[i])
                  /\ saved_connections'[i].name =
                        IF /\ KeyOf(saved_connections[i]) = KeyOf(target)
                           /\ \A j \in 1..(i - 1) :
                                 KeyOf(saved_connections[j]) # KeyOf(target)
                        THEN name
                        ELSE saved_connections[i].name
            /\ NoSharedKey(saved_connections') <=> NoSharedKey(saved_connections)]_vars

C4Witness ==
    /\ pc[Caller] = "update_write"
    /\ Len(saved_connections) = 2
    /\ KeyOf(saved_connections[1]) = KeyOf(saved_connections[2])
    /\ saved_connections[1].name = <<"prod">>
    /\ saved_connections[2].name = <<>>

-----------------------------------------------------------------------------
(* Properties of the Docker manager slot and the previous-sample cache *)

ManagersAlive ==
    Cardinality({t \in Tasks : held[t] # NoManager})
       + (IF manager_state # NoManager THEN 1 ELSE 0)

\* C3: however docker_* commands interleave, at most one DockerManager, and so
\* one previous-sample cache, exists at any time.
OneDockerManager == ManagersAlive <= 1

\* C10: a calculate_cpu_percentage_with_cache call on a snapshot with CPU stats
\* leaves, on every branch, the entry {now, cpu_total, system_total, net_rx,
\* net_tx, block_read, block_write} of that snapshot under its resource id and
\* leaves the entries of all other ids as they were.
CacheHoldsLatestSample ==
    [][\A id \in Containers :
         ( /\ last'.op = "calculate_cpu_percentage_with_cache"
           /\ HasCpuStats(last'.val.stats)
           /\ UsageSample(Caller, id, last'.val.stats) ) =>
            LET before == held[Caller].previous_stats
                after == held'[Caller].previous_stats
                stats == last'.val.stats
            IN  /\ DOMAIN after = DOMAIN before \cup {id}
                /\ after[id].timestamp = local[Caller].current_time
                /\ after[id].cpu_total = stats.total_usage[1]
                /\ after[id].system_total = stats.system_cpu_usage[1]
                /\ <<after[id].network_rx, after[id].network_tx>> = GetNetworkStats(stats)
                /\ <<after[id].block_read, after[id].block_write>> = GetBlockStats(stats)
                /\ DOMAIN after[id] =
                      {"timestamp", "cpu_total", "system_total", "network_rx",
                       "network_tx", "block_read", "block_write"}
                /\ \A other \in DOMAIN before \ {id} : after[other] = before[other]]_vars

\* A call on the zero-system_delta path, for an id that had an older entry, with
\* another id's entry in the cache.
C10Witness ==
    /\ pc[Caller] = "docker_system_usage"
    /\ last.op = "calculate_cpu_percentage_with_cache"
    /\ last.val.resource_id = "c1"
    /\ last.val.baseline = "cache"
    /\ last.val.deltas[2] = 0
    /\ DOMAIN held[Caller].previous_stats = Containers
    /\ held[Caller].previous_stats["c1"].timestamp = 2
    /\ held[Caller].previous_stats["c2"].timestamp = 0

\* The step is a calculate_cpu_percentage_with_cache call of the caller for id.
CalcStep(id) ==
    /\ last'.op = "calculate_cpu_percentage_with_cache"
    /\ UsageSample(Caller, id, last'.val.stats)

FloorAtZero(n) == IF n > 0 THEN n ELSE 0

\* The deltas against the counters the snapshot carries for the cycle before.
PrecpuDeltas(stats) ==
    <<FloorAtZero(UnwrapOr(stats.total_usage, 0) - UnwrapOr(stats.pre_total_usage, 0)),
      FloorAtZero(UnwrapOr(stats.system_cpu_usage, 0)
                     - UnwrapOr(stats.pre_system_cpu_usage, 0))>>

\* The CPU count of a snapshot: online_cpus, else the per-CPU list's length but
\* at least 1, else 1.
CpusOf(stats) ==
    CASE stats.cpus[1] # <<>> -> stats.cpus[1][1]
      [] stats.cpus[1] = <<>> /\ stats.cpus[2] = <<>> -> 1
      [] stats.cpus[1] = <<>> /\ stats.cpus[2] = <<0>> -> 1
      [] OTHER -> stats.cpus[2][1]

\* The percentage (delta_cpu / delta_system) * cpus * 100 as a quotient, and 0
\* over 1 when delta_system is 0.
PercentFor(d, cpus) ==
    IF d[2] = 0 THEN [num |-> 0, den |-> 1]
    ELSE [num |-> d[1] * cpus * 100, den |-> d[2]]

\* C11: with a cache entry for the id and less than MIN_CPU_INTERVAL elapsed
\* since it (0 seconds, or a `now` before the cached timestamp), the deltas and
\* the result come from the snapshot's precpu counters, not from the cache.
ShortIntervalUsesPrecpu ==
    [][\A id \in Containers :
         ( /\ CalcStep(id)
           /\ HasCpuStats(last'.val.stats)
           /\ id \in DOMAIN held[Caller].previous_stats
           /\ local[Caller].current_time - held[Caller].previous_stats[id].timestamp
                 < MIN_CPU_INTERVAL ) =>
            /\ last'.val.deltas = PrecpuDeltas(last'.val.stats)
            /\ last'.val.returned.usage_cpu =
                  PercentFor(PrecpuDeltas(last'.val.stats), CpusOf(last'.val.stats))]_vars

\* Two calls 0 seconds apart: the cached cpu_total equals the new one, so the
\* cache would give a cpu delta of 0; the delta is the one against precpu.
C11Witness ==
    /\ last.op = "calculate_cpu_percentage_with_cache"
    /\ last.val.prev_stats # <<>>
    /\ last.val.prev_stats[1].timestamp = local[Caller].current_time
    /\ last.val.prev_stats[1].cpu_total = 300
    /\ last.val.stats.total_usage = <<300>>
    /\ last.val.stats.pre_total_usage = <<100>>
    /\ last.val.deltas = <<200, 800>>

\* C12: with a cache entry at least MIN_CPU_INTERVAL old, each delta is the
\* snapshot's counter minus the cached one, and 0 when the counter went back;
\* it is never negative and never a wrapped value.
CacheDeltasFloorAtZero ==
    [][\A id \in Containers :
         ( /\ CalcStep(id)
           /\ HasCpuStats(last'.val.stats)
           /\ id \in DOMAIN held[Caller].previous_stats
           /\ local[Caller].current_time - held[Caller].previous_stats[id].timestamp
                 >= MIN_CPU_INTERVAL ) =>
            LET prev == held[Caller].previous_stats[id]
                stats == last'.val.stats
            IN  /\ last'.val.deltas =
                     <<FloorAtZero(stats.total_usage[1] - prev.cpu_total),
                       FloorAtZero(stats.system_cpu_usage[1] - prev.system_total)>>
                /\ \A k \in 1..2 :
                      /\ last'.val.deltas[k] >= 0
                      /\ last'.val.deltas[k] <= stats.system_cpu_usage[1]]_vars

\* The CPU counter went back from 300 to 100 while the system counter advanced.
C12Witness ==
    /\ last.op = "calculate_cpu_percentage_with_cache"
    /\ last.val.prev_stats # <<>>
    /\ local[Caller].current_time - last.val.prev_stats[1].timestamp >= MIN_CPU_INTERVAL
    /\ last.val.prev_stats[1].cpu_total = 300
    /\ last.val.prev_stats[1].system_total = 1000
    /\ last.val.stats.total_usage = <<100>>
    /\ last.val.stats.system_cpu_usage = <<1800>>
    /\ last.val.deltas = <<0, 800>>

\* C13: whatever the snapshot and the cache, the returned percentage has a
\* non-zero divisor and is not negative; when system_delta is 0 it is exactly 0
\* and online_cpus is still the CPU count of the snapshot.
NoDivisionByZero ==
    last.op = "calculate_cpu_percentage_with_cache" =>
        /\ last.val.returned.usage_cpu.den > 0
        /\ last.val.returned.usage_cpu.num >= 0
        /\ (HasCpuStats(last.val.stats) /\ last.val.deltas[2] = 0) =>
              /\ last.val.returned.usage_cpu.num = 0
              /\ last.val.returned.online_cpus = CpusOf(last.val.stats)

\* system_delta 0 with a cpu delta of 200, on a snapshot that counts 4 CPUs.
C13Witness ==
    /\ last.op = "calculate_cpu_percentage_with_cache"
    /\ last.val.deltas = <<200, 0>>
    /\ last.val.returned = [online_cpus |-> 4, usage_cpu |-> [num |-> 0, den |-> 1]]

\* C14: the first call for an id with no cache entry takes its deltas against
\* the snapshot's precpu counters, returns a value with a non-zero divisor, and
\* leaves a cache entry for the id.
FirstSampleUsesPrecpu ==
    [][\A id \in Containers :
         ( /\ CalcStep(id)
           /\ HasCpuStats(last'.val.stats)
           /\ id \notin DOMAIN held[Caller].previous_stats ) =>
            /\ last'.status = "ok"
            /\ last'.val.deltas = PrecpuDeltas(last'.val.stats)
            /\ last'.val.returned =
                  [online_cpus |-> CpusOf(last'.val.stats),
                   usage_cpu |-> PercentFor(PrecpuDeltas(last'.val.stats),
                                            CpusOf(last'.val.stats))]
            /\ last'.val.returned.usage_cpu.den # 0
            /\ id \in DOMAIN held'[Caller].previous_stats]_vars

C14Witness ==
    /\ last.op = "calculate_cpu_percentage_with_cache"
    /\ last.val.resource_id = "c2"
    /\ last.val.prev_stats = <<>>
    /\ last.val.baseline = "precpu_first_sample"
    /\ last.val.deltas = <<200, 800>>
    /\ "c2" \in DOMAIN held[Caller].previous_stats

\* C15: with a cached sample (c0, s0) at least MIN_CPU_INTERVAL old and a
\* snapshot (c1 >= c0, s1 > s0) with n online CPUs, the percentage is
\* ((c1 - c0) / (s1 - s0)) * n * 100; c1 sampled at 0 with (100, 1000) and at 2
\* with (300, 1800) on 2 CPUs has deltas 200 and 800 and the percentage 50.
CachePercentFormula ==
    [][\A id \in Containers :
         ( /\ CalcStep(id)
           /\ HasCpuStats(last'.val.stats)
           /\ last'.val.stats.cpus[1] # <<>>
           /\ id \in DOMAIN held[Caller].previous_stats
           /\ local[Caller].current_time - held[Caller].previous_stats[id].timestamp
                 >= MIN_CPU_INTERVAL
           /\ last'.val.stats.total_usage[1] >= held[Caller].previous_stats[id].cpu_total
           /\ last'.val.stats.system_cpu_usage[1]
                 > held[Caller].previous_stats[id].system_total ) =>
            LET prev == held[Caller].previous_stats[id]
                stats == last'.val.stats
                pct == last'.val.returned.usage_cpu
            IN  /\ pct.den # 0
                /\ pct.num * (stats.system_cpu_usage[1] - prev.system_total) =
                      pct.den * (stats.total_usage[1] - prev.cpu_total)
                                  * stats.cpus[1][1] * 100
                /\ ( /\ id = "c1" /\ prev.timestamp = 0 /\ local[Caller].current_time = 2
                     /\ prev.cpu_total = 100 /\ prev.system_total = 1000
                     /\ stats.total_usage = <<300>> /\ stats.system_cpu_usage = <<1800>>
                     /\ stats.cpus[1] = <<2>> ) =>
                      /\ last'.val.deltas = <<200, 800>>
                      /\ pct.num = 50 * pct.den]_vars

C15Witness ==
    /\ last.op = "calculate_cpu_percentage_with_cache"
    /\ last.val.resource_id = "c1"
    /\ last.val.prev_stats # <<>>
    /\ last.val.prev_stats[1].timestamp = 0
    /\ last.val.prev_stats[1].cpu_total = 100
    /\ last.val.prev_stats[1].system_total = 1000
    /\ local[Caller].current_time = 2
    /\ last.val.stats.total_usage = <<300>>
    /\ last.val.stats.system_cpu_usage = <<1800>>
    /\ last.val.stats.cpus[1] = <<2>>
    /\ last.val.returned = [online_cpus |-> 2, usage_cpu |-> [num |-> 40000, den |-> 800]]

\* C16: a call on a snapshot without CPU stats returns online_cpus 0 and the
\* percentage 0 and leaves the whole cache as it was.
NoCpuStatsLeavesCache ==
    [][\A id \in Containers :
         (CalcStep(id) /\ ~HasCpuStats(last'.val.stats)) =>
            /\ last'.val.returned = [online_cpus |-> 0, usage_cpu |-> [num |-> 0, den |-> 1]]
            /\ held'[Caller].previous_stats = held[Caller].previous_stats]_vars

\* The id had an entry from an earlier time, and still has that entry.
C16Witness ==
    /\ last.op = "calculate_cpu_percentage_with_cache"
    /\ last.val.stats.shape = "no_precpu_usage"
    /\ last.val.prev_stats # <<>>
    /\ last.val.prev_stats[1].timestamp # local[Caller].current_time
    /\ last.val.resource_id \in DOMAIN held[Caller].previous_stats
    /\ held[Caller].previous_stats[last.val.resource_id] = last.val.prev_stats[1]

-----------------------------------------------------------------------------
(* Properties of disconnect, disconnect_all, the sweep and execute_command *)

NotFound(op) == Res(op, "err", "Connection not found")

\* C17: a disconnect of an id in the table removes that entry and no other and
\* succeeds; a second disconnect of that id gets "Connection not found" and
\* changes nothing; neither faults.
DisconnectTwice ==
    [][/\ \A id \in AllConnIds :
            Disconnect(Caller, id) =>
               IF id \in DOMAIN connections
               THEN /\ DOMAIN connections' = DOMAIN connections \ {id}
                    /\ \A j \in DOMAIN connections' : connections'[j] = connections[j]
                    /\ pc'[Caller] = "disconnect_release"
               ELSE /\ last' = NotFound("disconnect")
                    /\ connections' = connections
       /\ DisconnectRelease(Caller) =>
             /\ last' = Res("disconnect", "ok", local[Caller].connection_id)
             /\ connections' = connections
       /\ (last.op = "disconnect" /\ last.status = "ok" /\ Disconnect(Caller, last.val)) =>
             /\ last' = NotFound("disconnect")
             /\ connections' = connections]_vars

\* Every id that was ever handed out is either in the table or was released, a
\* session is in the table, and the last call was a disconnect that found
\* nothing: it was a disconnect of a released id.
C17Witness ==
    /\ last = NotFound("disconnect")
    /\ \A id \in AllConnIds : id \in DOMAIN connections \/ releases[id] = 1
    /\ \E id \in AllConnIds : id \in DOMAIN connections
    /\ \E id \in AllConnIds : releases[id] = 1

\* C18: disconnect_all empties the table in one step under the lock, reports
\* how many sessions it removed, releases the transport of each of them, and
\* returns Ok whichever of the sessions fail to say goodbye.
DisconnectAllDrains ==
    [][\A t \in Tasks, failed \in SUBSET AllConnIds :
         DisconnectAll(t, failed) =>
            /\ conn_lock = NoTask /\ conn_lock' = NoTask
            /\ connections' = EmptyMap
            /\ last' = Res("disconnect_all", "ok", Cardinality(DOMAIN connections))
            /\ \A id \in AllConnIds :
                  releases'[id] = releases[id] + (IF id \in DOMAIN connections THEN 1 ELSE 0)
            /\ pc'[t] = "idle"]_vars

C18Witness ==
    /\ last = Res("disconnect_all", "ok", 2)
    /\ connections = EmptyMap
    /\ Cardinality({id \in AllConnIds : releases[id] = 1}) = 2

\* C19: when no last_activity lies after `now`, the sweep removes exactly the
\* sessions idle for more than the threshold (one idle for exactly the
\* threshold stays), leaves the others as they were, releases each removed one
\* and returns their number.
SweepRemovesIdle ==
    [][\A m \in IdleMinutes, oc \in BOOLEAN :
         ( /\ Cleanup(Caller, m, oc)
           /\ \A id \in DOMAIN connections : connections[id].last_activity <= clock ) =>
            LET idle == {id \in DOMAIN connections :
                            clock - connections[id].last_activity > m * 60}
            IN  /\ DOMAIN connections' = DOMAIN connections \ idle
                /\ \A id \in DOMAIN connections' : connections'[id] = connections[id]
                /\ \A id \in AllConnIds :
                      releases'[id] = releases[id] + (IF id \in idle THEN 1 ELSE 0)
                /\ last' = Res("cleanup_inactive_connections", "ok", Cardinality(idle))]_vars

\* One session was swept and released, one that was active at `now` stays.
C19Witness ==
    /\ last = Res("cleanup_inactive_connections", "ok", 1)
    /\ \E id \in AllConnIds : releases[id] = 1 /\ id \notin DOMAIN connections
    /\ \E id \in DOMAIN connections : connections[id].last_activity = clock

\* C20: execute_command on an id that is not in the table returns "Connection
\* not found" and changes no session; a non-zero exit status gives an error
\* with the status and the output; Ok(output) is returned on exit status 0 only.
ExecReportsExitStatus ==
    [][/\ (ExecBegin(Caller) /\ local[Caller].connection_id \notin DOMAIN connections) =>
             /\ last' = NotFound("execute_command")
             /\ connections' = connections
             /\ pc'[Caller] = "idle"
       /\ \A o \in ExecOutcomes :
             ExecRoundTrip(Caller, {o}) =>
                /\ o = "exit_nonzero" =>
                      /\ last'.status = "err"
                      /\ last'.exit_status \in ExitStatuses /\ last'.exit_status # 0
                      /\ last'.output = Output
                /\ last'.status = "ok" => (o = "ok" /\ last'.val = Output)
                /\ o = "ok" => last' = Res("execute_command", "ok", Output)]_vars

C20Witness ==
    /\ last = [op |-> "execute_command", status |-> "err",
               val |-> "Command failed with exit status",
               exit_status |-> 2, output |-> Output]
    /\ connections # EmptyMap

\* C21: for each session, last_activity is never smaller than connected_at nor
\* smaller than any earlier value of itself, whatever execute_command calls run.
LastActivityMonotonic ==
    [][\A id \in (DOMAIN connections) \cap (DOMAIN connections') :
          /\ connections'[id].last_activity >= connections[id].last_activity
          /\ connections'[id].last_activity >= connections'[id].connected_at]_vars

\* C22: a successful connect adds exactly one entry to the session table, keyed
\* by the returned id, with the request's host, port and username and with
\* connected_at and last_activity both equal to the `now` the call read at its
\* start; no other session changes, and the password-free profile of the
\* request is appended to the saved-profile list.
ConnectAddsOneSession ==
    [][/\ \A request \in Requests :
             ConnectBegin(Caller, request) =>
                /\ local'[Caller].current_time = clock
                /\ local'[Caller].request = request
                /\ local'[Caller].connection_id \notin DOMAIN connections
       /\ ConnectSave(Caller) =>
             saved_connections' =
                Append(saved_connections,
                       [host |-> local[Caller].request.host,
                        port |-> local[Caller].request.port,
                        username |-> local[Caller].request.username,
                        name |-> <<>>])
       /\ ConnectInsert(Caller) =>
             LET id == local[Caller].connection_id IN
             /\ last' = Res("connect", "ok", id)
             /\ DOMAIN connections' = (DOMAIN connections) \cup {id}
             /\ id \notin DOMAIN connections
             /\ \A other \in DOMAIN connections : connections'[other] = connections[other]
             /\ connections'[id].connection_id = id
             /\ connections'[id].host = local[Caller].request.host
             /\ connections'[id].port = local[Caller].request.port
             /\ connections'[id].username = local[Caller].request.username
             /\ connections'[id].connected_at = local[Caller].current_time
             /\ connections'[id].last_activity = local[Caller].current_time
             /\ Len(saved_connections) > 0
             /\ KeyOf(saved_connections[Len(saved_connections)]) =
                   KeyOf(connections'[id])]_vars

\* A second connect succeeded at instant 660 next to an older session.
C22Witness ==
    /\ last.op = "connect" /\ last.status = "ok"
    /\ last.val \in DOMAIN connections
    /\ connections[last.val].connected_at = 660
    /\ connections[last.val].last_activity = 660
    /\ \E other \in DOMAIN connections :
          other # last.val /\ connections[other].connected_at = 0
    /\ Len(saved_connections) = 2

\* C23: is_connected returns true only for an id that is in the session table
\* with a session present, and returns Ok(false), never an error, for an id
\* that is absent; it changes nothing.
IsConnectedOnlyIfPresent ==
    [][\A id \in AllConnIds :
          IsConnected(Caller, id) =>
             /\ last'.op = "is_connected" /\ last'.status = "ok"
             /\ last'.val \in BOOLEAN
             /\ last'.val = TRUE => (id \in DOMAIN connections /\ connections[id].session)
             /\ id \notin DOMAIN connections => last'.val = FALSE
             /\ UNCHANGED <<connections, saved_connections, config_file>>]_vars

\* is_connected answered false after the only session had been disconnected.
C23Witness ==
    /\ last = Res("is_connected", "ok", FALSE)
    /\ connections = EmptyMap
    /\ \E id \in AllConnIds : releases[id] = 1

\* C24: the password is never stored.  Whatever password connect or
\* test_connection was called with, the saved-profile list, the file content
\* and the session entry it produces are those any other password would have
\* produced, and no saved record, file record, session entry or summary
\* returned by list_connections / get_connection_info has a password in it.
SavedFields == {"host", "port", "username", "name"}
InfoFields ==
    {"host", "port", "username", "connection_id", "connected_at", "last_activity"}

WithPassword(request, p) == [request EXCEPT !.password = p]

PasswordNeverStored ==
    [][/\ \A p \in Passwords :
             /\ ConnectSave(Caller) =>
                   saved_connections' =
                      PushSaved(saved_connections,
                                SavedOf(WithPassword(local[Caller].request, p), <<>>))
             /\ ConnectInsert(Caller) =>
                   connections' =
                      MapInsert(connections, local[Caller].connection_id,
                                NewConnection(local[Caller].connection_id,
                                              WithPassword(local[Caller].request, p),
                                              local[Caller].current_time))
       /\ \A i \in 1..Len(saved_connections') : DOMAIN saved_connections'[i] = SavedFields
       /\ \A i \in 1..Len(config_file'.array) :
             DOMAIN config_file'.array[i] = SavedFields
       /\ \A id \in DOMAIN connections' : "password" \notin DOMAIN connections'[id]
       /\ (last' # last /\ last'.op = "get_connection_info" /\ last'.status = "ok") =>
             DOMAIN last'.val = InfoFields
       /\ (last' # last /\ last'.op = "list_connections") =>
             \A info \in last'.val : DOMAIN info = InfoFields
       /\ (last' # last /\ last'.op = "test_connection") =>
             "password" \notin DOMAIN last'.val
       /\ pc'[Caller] = "idle" => local'[Caller] = NoLocal]_vars

\* A second connect, made with the other password, has saved its profile: the
\* two saved records and the file are the same as for the first password.
C24Witness ==
    /\ pc[Caller] = "connect_insert"
    /\ local[Caller].request.password = "pw2"
    /\ Len(saved_connections) = 2
    /\ saved_connections[1] = saved_connections[2]
    /\ config_file = JsonFile(Serialize(saved_connections))
    /\ connections # EmptyMap

\* C25: update_saved_connection_name and remove_saved_connection called with a
\* (host, port, username) that matches no saved profile return a NotFound
\* error to the caller.
MissingProfileIsNotFound ==
    [][\A target \in Targets :
          FindFirst(saved_connections, target) = 0 =>
             /\ (\E name \in Names : UpdateSavedName(Caller, target, name)) =>
                   last'.status = "err"
             /\ RemoveSaved(Caller, target) =>
                   (pc'[Caller] = "idle" /\ last'.status = "err")]_vars

\* C26 (as stated): a saved-profile mutation holds the saved-profile lock from
\* its in-memory change until its file rewrite has finished, so while one task
\* is between its change and its write no other task reads or modifies the list.
MutationHoldsLockUntilWritten ==
    [][\A t \in Tasks : \A u \in Tasks \ {t} :
          pc[t] \in DOMAIN SaveOps =>
             /\ saved_connections' = saved_connections
             /\ ~GetSavedConnections(u)]_vars

\* C26 (amended): the in-memory change and the file rewrite are two critical
\* sections: the change leaves the file alone and the task waiting to write,
\* the rewrite leaves the list alone, and a rewrite that succeeds leaves the
\* file equal to the list as it is when the write runs, whichever tasks
\* changed it in between.
WritePersistsCurrentList ==
    [][\A t \in Tasks :
          /\ \A target \in Targets :
                /\ AddSaved(t, target, <<>>) =>
                      (config_file' = config_file /\ pc'[t] = "add_write")
                /\ RemoveSaved(t, target) =>
                      (config_file' = config_file /\ pc'[t] = "remove_write")
                /\ (\E name \in Names : UpdateSavedName(t, target, name)) =>
                      /\ config_file' = config_file
                      /\ pc'[t] = IF FindFirst(saved_connections, target) = 0
                                  THEN "idle" ELSE "update_write"
          /\ SaveConnections(t, {"written"}) =>
                /\ LoadSavedConnections(config_file') = saved_connections
                /\ saved_connections' = saved_connections
                /\ last' = Res(SaveOps[pc[t]], "ok", <<>>)]_vars

\* Task 1 has pushed a profile and not yet written it; in between another task
\* read the list with that profile in it, which the file does not hold.
C26Witness ==
    /\ pc[1] = "add_write"
    /\ last.op = "get_saved_connections"
    /\ last.val = saved_connections
    /\ Len(saved_connections) > 0
    /\ LoadSavedConnections(config_file) # saved_connections

\* C27: when the rewrite of the saved-profile file fails, the operation that
\* triggered it (add, remove, update, or the auto-save inside connect) returns
\* an error to its caller, and the in-memory list stays the list the operation
\* produces on success.
SaveFailureIsReported ==
    [][/\ \A w \in WriteKinds \ {"written"} :
             /\ SaveConnections(Caller, {w}) =>
                   (last'.status = "err" /\ saved_connections' = saved_connections)
             /\ ConnectWrite(Caller, {w}) => saved_connections' = saved_connections
       /\ (ConnectInsert(Caller)
             /\ LoadSavedConnections(config_file) # saved_connections) =>
             (last'.op = "connect" /\ last'.status = "err")]_vars

\* C28: every successful connect appends exactly one profile {host, port,
\* username, name: none} to the end of the saved-profile list, whether or not
\* a record with that key is already there, so the number of records with the
\* key grows by one with each successful connect.
KeyCount(saved, target) == Cardinality({i \in 1..Len(saved) : Matches(saved[i], target)})

ConnectAppendsProfile ==
    [][/\ ConnectSave(Caller) =>
             /\ Len(saved_connections') = Len(saved_connections) + 1
             /\ SubSeq(saved_connections', 1, Len(saved_connections)) = saved_connections
             /\ saved_connections'[Len(saved_connections')].name = <<>>
             /\ Matches(saved_connections'[Len(saved_connections')], local[Caller].request)
             /\ KeyCount(saved_connections', local[Caller].request) =
                   KeyCount(saved_connections, local[Caller].request) + 1
       /\ ((\E request \in OneRequest : ConnectBegin(Caller, request))
              \/ ConnectSession(Caller, FewOutcomes)
              \/ ConnectWrite(Caller, WriteKinds)
              \/ ConnectInsert(Caller)) =>
             saved_connections' = saved_connections
       /\ ConnectInsert(Caller) =>
             (last'.status = "ok" /\ KeyCount(saved_connections, local[Caller].request) >= 1)]_vars

\* The second successful connect to the same target left two unnamed records
\* with the same key.
C28Witness ==
    /\ last = Res("connect", "ok", FormatConnectionId(1))
    /\ Len(saved_connections) = 2
    /\ KeyOf(saved_connections[1]) = KeyOf(saved_connections[2])
    /\ saved_connections[1].name = <<>> /\ saved_connections[2].name = <<>>

\* C29: test_connection, however it ends, leaves the session table, the
\* connection-id counter and the saved-profile list unchanged; the session it
\* opened is dropped before it returns and is in no table.
TestConnectionStoresNothing ==
    [][/\ ((\E request \in Requests : TestBegin(Caller, request))
              \/ TestAttempt(Caller, SessionOutcomes)) =>
             UNCHANGED <<connections, connection_counter, saved_connections,
                         config_file, opened, releases>>
       /\ TestAttempt(Caller, SessionOutcomes) =>
             /\ last'.op = "test_connection"
             /\ pc'[Caller] = "idle" /\ local'[Caller] = NoLocal
             /\ last'.val.session \in {"dropped", "none"}
             /\ last'.status = "ok" => last'.val.session = "dropped"]_vars

\* A test succeeded next to a live session: the table still holds that one
\* session only, and one id only was ever handed out.
C29Witness ==
    /\ last.op = "test_connection" /\ last.status = "ok"
    /\ last.val.session = "dropped"
    /\ DOMAIN connections = {FormatConnectionId(0)}
    /\ connection_counter = 1
    /\ Len(saved_connections) = 1

\* C30: for a session connect has inserted and nothing has removed, whose
\* transport is connected and authenticated, is_connected returns true.
LiveSessionIsConnected ==
    [][\A id \in AllConnIds :
          (/\ IsConnected(Caller, id)
           /\ id \in DOMAIN connections
           /\ connections[id].session /\ connections[id].tcp_stream) =>
             last' = Res("is_connected", "ok", TRUE)]_vars

\* C31: check_docker_status called with a connection id that is not in the
\* session table returns SshNotConnected.
StatusOfUnknownSession ==
    [][(StatusVersion(Caller, ExecOutcomes)
          /\ local[Caller].connection_id \notin DOMAIN connections) =>
             last' = Res("check_docker_status", "ok", "SshNotConnected")]_vars

\* C32: in every reachable state each entry of the session table owns an
\* unreleased transport (session and tcp_stream both present, opened once and
\* not released), so execute_command never returns "No active SSH session".
EntriesOwnTransport ==
    /\ \A id \in DOMAIN connections :
          /\ connections[id].session /\ connections[id].tcp_stream
          /\ opened[id] = 1 /\ releases[id] = 0
    /\ ~(last.op = "execute_command" /\ last.status = "err"
           /\ last.val = "No active SSH session")

\* A command ran on a session after another session had been released.
C32Witness ==
    /\ last = Res("execute_command", "ok", Output)
    /\ connections # EmptyMap
    /\ \E id \in AllConnIds : releases[id] = 1 /\ id \notin DOMAIN connections

\* C33: an execute_command that fails on an existing session (channel, exec or
\* read error, or non-zero exit status) leaves the session in the table with
\* its transport unreleased and with last_activity set to the time of the
\* call; connected_at, host, port and username are unchanged.
FailedExecKeepsSession ==
    [][LET id == local[Caller].connection_id IN
       /\ (ExecBegin(Caller) /\ id \in DOMAIN connections) =>
             /\ DOMAIN connections' = DOMAIN connections
             /\ connections'[id] = [connections[id] EXCEPT !.last_activity = clock]
             /\ \A other \in DOMAIN connections \ {id} :
                   connections'[other] = connections[other]
             /\ pc'[Caller] = "execute_roundtrip" => local'[Caller].current_time = clock
       /\ \A o \in ExecOutcomes \ {"ok"} :
             ExecRoundTrip(Caller, {o}) =>
                /\ last'.op = "execute_command" /\ last'.status = "err"
                /\ connections' = connections
                /\ id \in DOMAIN connections'
                /\ connections'[id].session /\ connections'[id].tcp_stream
                /\ releases'[id] = 0
                /\ connections'[id].last_activity = local[Caller].current_time]_vars

\* The channel could not be opened on a session connected at 0: the session
\* is still in the table, unreleased, with last_activity at the call's 660.
C33Witness ==
    /\ last = Res("execute_command", "err", "Failed to create channel")
    /\ \E id \in DOMAIN connections :
          /\ connections[id].connected_at = 0
          /\ connections[id].last_activity = 660
          /\ connections[id].session
          /\ releases[id] = 0

\* C34: whenever no saved-profile operation is in progress and every file
\* write so far has succeeded, the profile file deserializes to exactly the
\* in-memory saved-profile list (same records, same order), for any
\* interleaving of add, remove, rename and connect auto-save.
ProfileOpInProgress(t) == pc[t] \in (DOMAIN SaveOps) \cup {"connect_write"}

FileMatchesList ==
    (\A t \in Tasks : ~ProfileOpInProgress(t)) =>
       LoadSavedConnections(config_file) = saved_connections

\* Two tasks have added, renamed and written: the file holds a named and an
\* unnamed record in list order.
C34Witness ==
    /\ \A t \in Tasks : pc[t] = "idle"
    /\ Len(saved_connections) = 2
    /\ saved_connections[1].name = <<"prod">>
    /\ saved_connections[2].name = <<>>
    /\ saved_connections[1].host # saved_connections[2].host
    /\ config_file = JsonFile(Serialize(saved_connections))

\* C35: update_saved_connection_name changes the name of exactly one record,
\* the first in list order whose (host, port, username) matches, and leaves
\* every other record, the list length and the list order unchanged; when no
\* record matches it changes nothing and does not rewrite the file.
UpdateRenamesFirstMatch ==
    [][\A target \in Targets, name \in Names :
          UpdateSavedName(Caller, target, name) =>
             LET hits == {i \in 1..Len(saved_connections) :
                             Matches(saved_connections[i], target)}
             IN
             /\ config_file' = config_file
             /\ Len(saved_connections') = Len(saved_connections)
             /\ hits = {} =>
                   /\ saved_connections' = saved_connections
                   /\ pc'[Caller] = "idle"
                   /\ last' = Res("update_saved_connection_name", "ok", <<>>)
             /\ hits # {} =>
                   /\ pc'[Caller] = "update_write"
                   /\ \E k \in hits :
                         /\ \A i \in hits : k <= i
                         /\ saved_connections'[k] =
                               [saved_connections[k] EXCEPT !.name = name]
                         /\ \A i \in 1..Len(saved_connections) :
                               i # k => saved_connections'[i] = saved_connections[i]]_vars

\* The rename of a key held by two records was written: the first record has
\* the name, the second has none, and the file holds both in that order.
C35Witness ==
    /\ pc[Caller] = "idle"
    /\ last = Res("update_saved_connection_name", "ok", <<>>)
    /\ Len(saved_connections) = 2
    /\ KeyOf(saved_connections[1]) = KeyOf(saved_connections[2])
    /\ saved_connections[1].name = <<"prod">>
    /\ saved_connections[2].name = <<>>
    /\ config_file = JsonFile(Serialize(saved_connections))

\* C36: after remove_saved_connection(host, port, username) no record with
\* that key remains in the saved-profile list (all duplicates go at once), and
\* the records with other keys are kept unchanged in their relative order.
RemoveDropsEveryMatch ==
    [][\A target \in Targets :
          RemoveSaved(Caller, target) =>
             LET kept == {i \in 1..Len(saved_connections) :
                             ~Matches(saved_connections[i], target)}
             IN
             /\ \A i \in 1..Len(saved_connections') :
                   ~Matches(saved_connections'[i], target)
             /\ Len(saved_connections') = Cardinality(kept)
             /\ \E f \in [1..Len(saved_connections') -> kept] :
                   /\ \A i, j \in 1..Len(saved_connections') : i < j => f[i] < f[j]
                   /\ \A i \in 1..Len(saved_connections') :
                         saved_connections'[i] = saved_connections[f[i]]
             /\ pc'[Caller] = "remove_write"]_vars

\* Two records with one key, both in the file, were removed from the list by
\* one call that has not yet rewritten the file.
C36Witness ==
    /\ pc[Caller] = "remove_write"
    /\ saved_connections = <<>>
    /\ Len(config_file.array) = 2
    /\ config_file.array[1].host = config_file.array[2].host

\* C37: no SshClient operation deadlocks.  No task holds the session-table
\* lock and the saved-profile lock at the same time, a task between its
\* change of the profile list and the rewrite does not hold the saved-profile
\* lock, and, every transport call returning, every started operation
\* completes and every held lock is released.
NoDeadlock ==
    /\ [](\A t \in Tasks : ~(conn_lock = t /\ saved_lock = t))
    /\ [](\A t \in Tasks :
             pc[t] \in (DOMAIN SaveOps) \cup {"connect_write"} => saved_lock # t)
    /\ [](\A t \in Tasks : pc[t] = "idle" => (conn_lock # t /\ saved_lock # t))
    /\ \A t \in Tasks : (pc[t] # "idle") ~> (pc[t] = "idle")

\* One task holds the session-table lock across its round trip while the other
\* has changed the profile list and is about to rewrite the file.
C37Witness ==
    /\ conn_lock = 1 /\ pc[1] = "execute_roundtrip"
    /\ pc[2] \in DOMAIN SaveOps
    /\ saved_lock = NoTask

====
